---- MODULE Spec2Model ----
(***************************************************************************)
(* AcqfThompsonSamplerGenerator                                            *)
(* (src/aepsych/generators/acqf_thompson_sampler_generator.py).            *)
(*                                                                         *)
(* One gen call is modelled as the sequence of its statements: the         *)
(* dispatch on stimuli_per_trial, model.eval(), the instantiation of the   *)
(* acquisition function, the candidate pool, the batched scoring, the      *)
(* shift and normalisation, numpy's weighted draw, and the return (with    *)
(* the paired-trial reshape).                                              *)
(*                                                                         *)
(* Numbers.  Coordinates are fixed-point integers in units of 1/UGrid: a   *)
(* uniform sample u in [0,1) is k/UGrid with k in 0..UGrid-1, and the      *)
(* coordinate lb + (ub-lb)*u is stored as lb*UGrid + (ub-lb)*k.            *)
(* Acquisition scores are integers.  A quotient is the pair <<num, den>>,  *)
(* exact, so "within floating tolerance" is exact equality here; the pair  *)
(* <<0, 0>> is the IEEE value of 0/0, NaN.                                 *)
(*                                                                         *)
(* Optional values.  Python's None is <<>>, a present value v is <<v>>.    *)
(***************************************************************************)
EXTENDS Integers, Sequences, FiniteSets

VARIABLES
    self,              \* the generator's fields, set by the constructor
    pc,                \* the statement of gen / _gen that runs next
    num_points,        \* gen's num_points argument
    seed,              \* gen_options.get("seed"): <<>> or <<s>>
    model,             \* the caller's model: [train_inputs, training]
    q,                 \* _gen's num_points parameter
    acqf_obj,          \* the local acqf: <<>> or <<the instantiation made>>
    sampler,           \* which branch of lines 136-145 built the pool
    rng_seed,          \* the seed the sampling engine ran with
    X_rnd,             \* the candidate pool, samps x q x D
    scores,            \* what acqf(X_rnd) returned
    acqf_vals,         \* the float64 tensor, shifted in place
    probability_dist,  \* acqf_vals / acqf_vals.sum()
    candidate_idx,     \* <<>> or <<the index numpy drew>> (0-based)
    new_candidate,     \* X_rnd[candidate_idx].squeeze(0)
    result,            \* what gen returned
    error,             \* the exception that ended the call, "" if none
    eval_calls,        \* model.eval() calls made by the current gen call
    acqf_calls,        \* calls of the acquisition function in this gen call
    np_draws,          \* draws numpy's global generator served in this call
    first              \* <<>>, or <<the outcome of the call being repeated>>

vars == <<self, pc, num_points, seed, model, q, acqf_obj, sampler, rng_seed,
          X_rnd, scores, acqf_vals, probability_dist, candidate_idx,
          new_candidate, result, error, eval_calls, acqf_calls, np_draws,
          first>>

None == <<>>
Some(v) == <<v>>

-----------------------------------------------------------------------------
(* Bounds of the model.                                                    *)

\* the largest number of input dimensions D
MaxD == 2
\* the largest num_points a caller asks for
MaxNumPoints == 2
\* the largest candidate pool
MaxSamps == 4
\* seeds are 0..MaxSeed
MaxSeed == 1
\* resolution of a uniform sample in [0,1)
UGrid == 3
\* SobolEngine.MAXDIM, the largest dimension torch's Sobol engine supports.
\* torch sets it to 21201; the model scales it down so that D*q reaches it,
\* equals it and exceeds it with small D and q.
MAXDIM == 4

\* per-dimension (lb, ub) pairs, lb < ub
BoundPairs == {<<-1, 1>>, <<1, 3>>}
\* the values an acquisition function returns for one pool row
ScoreVals == {-3, -1, 1}

-----------------------------------------------------------------------------
(* Tensor helpers.                                                         *)

Range(s) == {s[i] : i \in DOMAIN s}

\* torch.Tensor.min()
tensor_min(v) == CHOOSE m \in Range(v) : \A x \in Range(v) : m <= x

\* torch.Tensor.sum()
RECURSIVE tensor_sum(_)
tensor_sum(v) == IF v = <<>> THEN 0 ELSE v[1] + tensor_sum(Tail(v))

\* IEEE division a / b as an exact quotient; 0/0 is <<0, 0>>, NaN
true_divide(a, b) == <<a, b>>

isnan(x) == x[1] = 0 /\ x[2] = 0


-----------------------------------------------------------------------------
(* The acquisition classes and the constructor.                            *)

AnalyticExpectedUtilityOfBestOption == "AnalyticExpectedUtilityOfBestOption"
NoisyExpectedImprovement == "NoisyExpectedImprovement"
LogNoisyExpectedImprovement == "LogNoisyExpectedImprovement"
qNoisyExpectedImprovement == "qNoisyExpectedImprovement"
qLogNoisyExpectedImprovement == "qLogNoisyExpectedImprovement"
\* an acquisition class that is neither the preference utility nor in the
\* baseline list
qUpperConfidenceBound == "qUpperConfidenceBound"

\* the list with its last entry lost
baseline_requiring_acqfs_short ==
    {NoisyExpectedImprovement, LogNoisyExpectedImprovement,
     qNoisyExpectedImprovement}

\* the class attribute; the code only tests membership in it
baseline_requiring_acqfs ==
    {NoisyExpectedImprovement, LogNoisyExpectedImprovement,
     qNoisyExpectedImprovement, qLogNoisyExpectedImprovement}

AcqfClasses ==
    {AnalyticExpectedUtilityOfBestOption, NoisyExpectedImprovement,
     LogNoisyExpectedImprovement, qNoisyExpectedImprovement,
     qLogNoisyExpectedImprovement, qUpperConfidenceBound}

\* a dict, as the set of its items
EmptyDict == {}
BetaKwargs == {<<"beta", 2>>}

\* __init__: the fields of the new generator
AcqfThompsonSamplerGenerator(lb, ub, acqf, acqf_kwargs, samps, stimuli_per_trial) ==
    [acqf |-> acqf,
     acqf_kwargs |-> IF acqf_kwargs = None THEN EmptyDict ELSE acqf_kwargs[1],
     samps |-> samps,
     stimuli_per_trial |-> stimuli_per_trial,
     lb |-> lb,
     ub |-> ub]

\* bounds.shape[-1] of np.c_[lb, ub].T
Dim(g) == Len(g.lb)

-----------------------------------------------------------------------------
(* _instantiate_acquisition_fn.  The value is [raised, value]: the         *)
(* exception the call ends with ("" if none) and the instantiation made,   *)
(* recorded as the class, the way the model was passed, the X_baseline     *)
(* argument (<<>> if none was passed) and the keyword arguments.           *)

\* model.train_inputs[0]: subscripting None raises TypeError, an empty
\* tuple IndexError
train_inputs_0(m) ==
    IF m.train_inputs = None THEN [raised |-> "TypeError", value |-> None]
    ELSE IF m.train_inputs[1] = <<>>
         THEN [raised |-> "IndexError", value |-> None]
         ELSE [raised |-> "", value |-> Some(m.train_inputs[1][1])]

\* a dispatch that falls back to the default convention when the model has
\* no training inputs
instantiate_acquisition_fn_fallback(g, m) ==
    IF g.acqf = AnalyticExpectedUtilityOfBestOption
    THEN [raised |-> "",
          value |-> Some([cls |-> g.acqf, model_arg |-> "pref_model",
                          X_baseline |-> None, kwargs |-> EmptyDict])]
    ELSE IF g.acqf \in baseline_requiring_acqfs
              /\ train_inputs_0(m).raised = ""
         THEN [raised |-> "",
               value |-> Some([cls |-> g.acqf, model_arg |-> "positional",
                               X_baseline |-> train_inputs_0(m).value,
                               kwargs |-> g.acqf_kwargs])]
         ELSE [raised |-> "",
               value |-> Some([cls |-> g.acqf, model_arg |-> "model",
                               X_baseline |-> None,
                               kwargs |-> g.acqf_kwargs])]

_instantiate_acquisition_fn(g, m) ==
    IF g.acqf = AnalyticExpectedUtilityOfBestOption
    THEN [raised |-> "",
          value |-> Some([cls |-> g.acqf, model_arg |-> "pref_model",
                          X_baseline |-> None, kwargs |-> EmptyDict])]
    ELSE IF g.acqf \in baseline_requiring_acqfs
         THEN IF train_inputs_0(m).raised # ""
              THEN [raised |-> train_inputs_0(m).raised, value |-> None]
              ELSE [raised |-> "",
                    value |-> Some([cls |-> g.acqf,
                                    model_arg |-> "positional",
                                    X_baseline |-> train_inputs_0(m).value,
                                    kwargs |-> g.acqf_kwargs])]
         ELSE [raised |-> "",
               value |-> Some([cls |-> g.acqf, model_arg |-> "model",
                               X_baseline |-> None,
                               kwargs |-> g.acqf_kwargs])]

-----------------------------------------------------------------------------
(* The candidate pool (lines 132-145).                                     *)

\* effective_dim <= SobolEngine.MAXDIM, with the equality lost
use_sobol_strict(effective_dim) == effective_dim < MAXDIM

\* the test of line 136
use_sobol(effective_dim) == effective_dim <= MAXDIM

\* SobolEngine(dimension, scramble=True, seed).draw(n): n points of
\* [0,1)^dimension, a function of the seed; entry [i][c] is k for u = k/UGrid
SobolEngine_draw(dimension, s, n) ==
    [i \in 1..n |-> [c \in 1..dimension |-> (s + (i - 1) + 2 * (c - 1)) % UGrid]]

\* torch.rand(n, q, d) under manual_seed(s): uniform values in [0,1), a
\* function of the generator state s
torch_rand(s, n, qq, d) ==
    [i \in 1..n |-> [j \in 1..qq |-> [k \in 1..d |->
        (2 * s + 3 * (i - 1) + (j - 1) + 2 * (k - 1) + 1) % UGrid]]]

\* botorch's draw_sobol_samples(bounds, n, q, seed): the engine's n points of
\* dimension q*d viewed as (n, q, d), then lower + rng * samples_raw
draw_sobol_samples(lb, ub, n, qq, s) ==
    LET d == Len(lb)
        samples_raw == SobolEngine_draw(qq * d, s, n)
    IN  [i \in 1..n |-> [j \in 1..qq |-> [k \in 1..d |->
            lb[k] * UGrid + (ub[k] - lb[k]) * samples_raw[i][(j - 1) * d + k]]]]

\* line 145 with the offset taken from the upper bound
rescale_from_ub(lb, ub, X_rnd_nlzd) ==
    [i \in DOMAIN X_rnd_nlzd |-> [j \in DOMAIN X_rnd_nlzd[i] |->
        [k \in DOMAIN X_rnd_nlzd[i][j] |->
            ub[k] * UGrid + (ub[k] - lb[k]) * X_rnd_nlzd[i][j][k]]]]

\* line 145: bounds_cpu[0] + (bounds_cpu[1] - bounds_cpu[0]) * X_rnd_nlzd
rescale(lb, ub, X_rnd_nlzd) ==
    [i \in DOMAIN X_rnd_nlzd |-> [j \in DOMAIN X_rnd_nlzd[i] |->
        [k \in DOMAIN X_rnd_nlzd[i][j] |->
            lb[k] * UGrid + (ub[k] - lb[k]) * X_rnd_nlzd[i][j][k]]]]

\* the seeds the engine can run with: the seed option if one was given,
\* otherwise whatever torch's global generator holds at the time
EngineSeeds(sd) == IF sd = None THEN 0..MaxSeed ELSE {sd[1]}

-----------------------------------------------------------------------------
(* Shift, normalisation and numpy's choice (lines 148-152).                *)

\* acqf_vals -= acqf_vals.min()
shift(v) == [i \in DOMAIN v |-> v[i] - tensor_min(v)]

\* acqf_vals / acqf_vals.sum()
normalize(v) == [i \in DOMAIN v |-> true_divide(v[i], tensor_sum(v))]

\* numerators of a probability vector
Nums(p) == [i \in DOMAIN p |-> p[i][1]]

\* numpy.random.choice's checks of p, in numpy's order: the exception
\* raised, "" if p is accepted.  All entries of p share one denominator.
choice_check(n, p) ==
    IF Len(p) # n THEN "ValueError: 'a' and 'p' must have same size"
    ELSE IF \E i \in DOMAIN p : isnan(p[i])
         THEN "ValueError: probabilities contain NaN"
    ELSE IF \E i \in DOMAIN p : p[i][1] * p[i][2] < 0
         THEN "ValueError: probabilities are not non-negative"
    ELSE IF \E i \in DOMAIN p : tensor_sum(Nums(p)) # p[i][2]
         THEN "ValueError: probabilities do not sum to 1"
    ELSE ""

\* cdf = p.cumsum(): numerators over the common denominator
cumsum(v) == [i \in DOMAIN v |-> tensor_sum(SubSeq(v, 1, i))]

\* the resolution of numpy's uniform sample r = t/UniformRes, t in
\* 0..UniformRes-1: fine enough to separate any two cdf steps
ScoreSpan ==
    (CHOOSE m \in ScoreVals : \A x \in ScoreVals : x <= m)
        - (CHOOSE m \in ScoreVals : \A x \in ScoreVals : m <= x)
UniformRes == MaxSamps * ScoreSpan

\* the draw taking the largest weight instead of sampling
choice_argmax(p, t) ==
    (CHOOSE i \in DOMAIN p : \A j \in DOMAIN p : p[j][1] <= p[i][1]) - 1

\* choice(np.arange(n), size=1, p=p) once p is accepted:
\* cdf.searchsorted(r, side="right"), the number of cdf entries <= r
choice(p, t) ==
    LET cdf == cumsum(Nums(p))
        total == cdf[Len(cdf)]
    IN  Cardinality({i \in DOMAIN cdf : cdf[i] * UniformRes <= t * total})

-----------------------------------------------------------------------------
(* The paired-trial reshape of gen (line 104).                             *)

\* a (rows, cols) tensor in memory order
flatten(x) ==
    LET cols == IF x = <<>> THEN 0 ELSE Len(x[1])
    IN  [e \in 1..(Len(x) * cols) |-> x[((e - 1) \div cols) + 1][((e - 1) % cols) + 1]]

\* reshape(a, b, -1): the last size is inferred from the element count
reshape3(x, a, b) ==
    LET flat == flatten(x)
        c == Len(flat) \div (a * b)
    IN  [k \in 1..a |-> [j \in 1..b |-> [d \in 1..c |->
            flat[((k - 1) * b + (j - 1)) * c + d]]]]

\* swapaxes(-1, -2) of a 3-d tensor
swapaxes(x) ==
    [k \in DOMAIN x |->
        [d \in 1..(IF x[k] = <<>> THEN 0 ELSE Len(x[k][1])) |->
            [j \in DOMAIN x[k] |-> x[k][j][d]]]]

\* the reshape straight to (num_points, dim, 2), without the swap
pair_reshape_noswap(qbatch_points, n) ==
    reshape3(qbatch_points, n, Len(qbatch_points[1]))

\* qbatch_points.reshape(num_points, 2, -1).swapaxes(-1, -2)
pair_reshape(qbatch_points, n) == swapaxes(reshape3(qbatch_points, n, 2))

-----------------------------------------------------------------------------
(* Inputs: the generators a configuration builds and the models, seeds     *)
(* and point counts callers pass.                                          *)

\* bounds of dimension d, one BoundPairs entry per dimension
Bounds(d) == [1..d -> BoundPairs]
lb_of(b) == [k \in DOMAIN b |-> b[k][1]]
ub_of(b) == [k \in DOMAIN b |-> b[k][2]]

\* every acquisition class and both kwargs options, over one-dimensional
\* bounds with a pool of two
DispatchConfigs ==
    {AcqfThompsonSamplerGenerator(<<1>>, <<3>>, a, kw, 2, spt) :
        a \in AcqfClasses, kw \in {None, Some(BetaKwargs)}, spt \in {1, 2}}

\* every dimension and all bounds, small pools
PoolConfigs ==
    UNION {{AcqfThompsonSamplerGenerator(lb_of(b), ub_of(b),
                qUpperConfidenceBound, Some(BetaKwargs), n, spt) :
                b \in Bounds(d), n \in 1..2, spt \in {1, 2}} : d \in 1..MaxD}

\* every pool size, single-stimulus trials over one-dimensional bounds
SelectConfigs ==
    {AcqfThompsonSamplerGenerator(<<-1>>, <<1>>, qUpperConfidenceBound,
                                  None, n, 1) : n \in 1..MaxSamps}

Configs == DispatchConfigs \cup PoolConfigs \cup SelectConfigs

\* a model: train_inputs is None, an empty tuple or a tuple of tensors;
\* training is the mode flag model.eval() clears
Models ==
    [train_inputs : {None, Some(<<>>), Some(<<"X0">>), Some(<<"X0", "X1">>)},
     training : BOOLEAN]

SeedOptions == {None} \cup {Some(s) : s \in 0..MaxSeed}

-----------------------------------------------------------------------------
(* The state machine.                                                      *)

\* the locals of a call that has not run yet
FreshLocals ==
    /\ acqf_obj' = None
    /\ sampler' = "none"
    /\ rng_seed' = None
    /\ X_rnd' = <<>>
    /\ scores' = <<>>
    /\ acqf_vals' = <<>>
    /\ probability_dist' = <<>>
    /\ candidate_idx' = None
    /\ new_candidate' = <<>>
    /\ result' = <<>>
    /\ error' = ""
    /\ eval_calls' = 0
    /\ acqf_calls' = 0
    /\ np_draws' = 0

Init ==
    /\ self \in Configs
    /\ pc = "idle"
    /\ num_points = 0
    /\ seed = None
    /\ model = [train_inputs |-> None, training |-> TRUE]
    /\ q = 0
    /\ acqf_obj = None
    /\ sampler = "none"
    /\ rng_seed = None
    /\ X_rnd = <<>>
    /\ scores = <<>>
    /\ acqf_vals = <<>>
    /\ probability_dist = <<>>
    /\ candidate_idx = None
    /\ new_candidate = <<>>
    /\ result = <<>>
    /\ error = ""
    /\ eval_calls = 0
    /\ acqf_calls = 0
    /\ np_draws = 0
    /\ first = None

\* gen(n, m, seed=s) entered: lines 97-100 and 107 pass num_points * 2 or
\* num_points to _gen
enter_gen(n, m, s) ==
    /\ num_points' = n
    /\ model' = m
    /\ seed' = s
    /\ q' = IF self.stimuli_per_trial = 2 THEN n * 2 ELSE n
    /\ pc' = "eval"
    /\ FreshLocals
    /\ UNCHANGED self

\* a caller calls gen
gen ==
    /\ pc = "idle"
    /\ \E n \in 1..MaxNumPoints, m \in Models, s \in SeedOptions :
           enter_gen(n, m, s)
    /\ UNCHANGED first

\* _gen without its model.eval() statement
model_eval_missing ==
    /\ pc = "eval"
    /\ pc' = "instantiate"
    /\ UNCHANGED <<self, num_points, seed, model, q, acqf_obj, sampler,
                   rng_seed, X_rnd, scores, acqf_vals, probability_dist,
                   candidate_idx, new_candidate, result, error, eval_calls,
                   acqf_calls, np_draws, first>>

\* line 126: model.eval()
model_eval ==
    /\ pc = "eval"
    /\ model' = [model EXCEPT !.training = FALSE]
    /\ eval_calls' = eval_calls + 1
    /\ pc' = "instantiate"
    /\ UNCHANGED <<self, num_points, seed, q, acqf_obj, sampler, rng_seed,
                   X_rnd, scores, acqf_vals, probability_dist, candidate_idx,
                   new_candidate, result, error, acqf_calls, np_draws, first>>

\* line 127: acqf = self._instantiate_acquisition_fn(model)
instantiate ==
    /\ pc = "instantiate"
    /\ LET r == _instantiate_acquisition_fn(self, model)
       IN  IF r.raised # ""
           THEN /\ error' = r.raised
                /\ pc' = "failed"
                /\ UNCHANGED acqf_obj
           ELSE /\ acqf_obj' = r.value
                /\ pc' = "sample"
                /\ UNCHANGED error
    /\ UNCHANGED <<self, num_points, seed, model, q, sampler, rng_seed,
                   X_rnd, scores, acqf_vals, probability_dist, candidate_idx,
                   new_candidate, result, eval_calls, acqf_calls, np_draws,
                   first>>

\* lines 132-145: the pool, from the Sobol engine or from torch.rand
sample_pool ==
    /\ pc = "sample"
    /\ \E s \in EngineSeeds(seed) :
          /\ rng_seed' = Some(s)
          /\ IF use_sobol(Dim(self) * q)
             THEN /\ sampler' = "sobol"
                  /\ X_rnd' = draw_sobol_samples(self.lb, self.ub,
                                                 self.samps, q, s)
             ELSE /\ sampler' = "rand"
                  /\ X_rnd' = rescale(self.lb, self.ub,
                                      torch_rand(s, self.samps, q, Dim(self)))
    /\ pc' = "score"
    /\ UNCHANGED <<self, num_points, seed, model, q, acqf_obj, scores,
                   acqf_vals, probability_dist, candidate_idx, new_candidate,
                   result, error, eval_calls, acqf_calls, np_draws, first>>

\* line 147: acqf_vals = acqf(X_rnd).to(torch.float64), one scalar per row
\* of the batch.  The acquisition function is a function of the model and
\* its input: on the pool of the call being repeated it returns what it
\* returned then.
score ==
    /\ pc = "score"
    /\ \E v \in [1..Len(X_rnd) -> ScoreVals] :
          /\ (first # None /\ first[1].X_rnd = X_rnd) => v = first[1].scores
          /\ scores' = v
          /\ acqf_vals' = v
    /\ acqf_calls' = acqf_calls + 1
    /\ pc' = "normalize"
    /\ UNCHANGED <<self, num_points, seed, model, q, acqf_obj, sampler,
                   rng_seed, X_rnd, probability_dist, candidate_idx,
                   new_candidate, result, error, eval_calls, np_draws, first>>

\* lines 148-149
shift_normalize ==
    /\ pc = "normalize"
    /\ acqf_vals' = shift(acqf_vals)
    /\ probability_dist' = normalize(shift(acqf_vals))
    /\ pc' = "choice"
    /\ UNCHANGED <<self, num_points, seed, model, q, acqf_obj, sampler,
                   rng_seed, X_rnd, scores, candidate_idx, new_candidate,
                   result, error, eval_calls, acqf_calls, np_draws, first>>

\* lines 150-152: numpy's choice, on numpy's global generator, which no
\* statement of gen seeds: its uniform sample is t/UniformRes for any t
draw ==
    /\ pc = "choice"
    /\ \E t \in 0..(UniformRes - 1) :
          IF choice_check(Len(X_rnd), probability_dist) # ""
          THEN /\ error' = choice_check(Len(X_rnd), probability_dist)
               /\ pc' = "failed"
               /\ UNCHANGED <<candidate_idx, np_draws>>
          ELSE /\ candidate_idx' = Some(choice(probability_dist, t))
               /\ np_draws' = np_draws + 1
               /\ pc' = "select"
               /\ UNCHANGED error
    /\ UNCHANGED <<self, num_points, seed, model, q, acqf_obj, sampler,
                   rng_seed, X_rnd, scores, acqf_vals, probability_dist,
                   new_candidate, result, eval_calls, acqf_calls, first>>

\* lines 153-156, then gen's line 104 or 107
select_return ==
    /\ pc = "select"
    /\ new_candidate' = X_rnd[candidate_idx[1] + 1]
    /\ result' = IF self.stimuli_per_trial = 2
                 THEN pair_reshape(X_rnd[candidate_idx[1] + 1], num_points)
                 ELSE X_rnd[candidate_idx[1] + 1]
    /\ pc' = "done"
    /\ UNCHANGED <<self, num_points, seed, model, q, acqf_obj, sampler,
                   rng_seed, X_rnd, scores, acqf_vals, probability_dist,
                   candidate_idx, error, eval_calls, acqf_calls, np_draws,
                   first>>

\* the call is over: its arguments and locals are gone, the caller keeps
\* its model
call_over ==
    /\ pc \in {"done", "failed"}
    /\ pc' = "idle"
    /\ num_points' = 0
    /\ seed' = None
    /\ q' = 0
    /\ first' = None
    /\ FreshLocals
    /\ UNCHANGED <<self, model>>

\* the caller repeats a call that is over with the same arguments, keeping
\* what the call produced
gen_again ==
    /\ pc \in {"done", "failed"}
    /\ first = None
    /\ first' = Some([pc |-> pc, X_rnd |-> X_rnd, scores |-> scores,
                      candidate_idx |-> candidate_idx, result |-> result,
                      error |-> error])
    /\ enter_gen(num_points, model, seed)

Next ==
    \/ gen
    \/ model_eval
    \/ instantiate
    \/ sample_pool
    \/ score
    \/ shift_normalize
    \/ draw
    \/ select_return
    \/ call_over

Spec == Init /\ [][Next]_vars

\* callers that also repeat calls
InitRepeat ==
    /\ Init
    /\ self \in {g \in SelectConfigs : g.samps <= 3}

NextRepeat == Next \/ gen_again

SpecRepeat == InitRepeat /\ [][NextRepeat]_vars

-----------------------------------------------------------------------------
(* The claims.                                                             *)

AllEqual(v) == \A i, j \in DOMAIN v : v[i] = v[j]

\* coordinate x of dimension d lies in [lb[d], ub[d]]
InBounds(x, d) == self.lb[d] * UGrid <= x /\ x <= self.ub[d] * UGrid

\* the returned point(s) lie within the bounds
ResultInBounds ==
    IF self.stimuli_per_trial = 2
    THEN \A k \in DOMAIN result : \A d \in DOMAIN result[k] :
             \A j \in DOMAIN result[k][d] : InBounds(result[k][d][j], d)
    ELSE \A k \in DOMAIN result : \A d \in DOMAIN result[k] :
             InBounds(result[k][d], d)

\* C1: when the acquisition function returns the same value for every
\* candidate, the selection distribution is uniform (each weight 1/samps),
\* the call does not fail, and gen returns a row of the pool within bounds.
C1_DegenerateUniform ==
    (scores # <<>> /\ AllEqual(scores)) =>
        /\ pc \in {"choice", "select", "done"} =>
               \A i \in DOMAIN probability_dist :
                   /\ probability_dist[i][2] # 0
                   /\ probability_dist[i][1] * self.samps
                          = probability_dist[i][2]
        /\ pc # "failed"
        /\ pc = "done" =>
               /\ \E i \in DOMAIN X_rnd : new_candidate = X_rnd[i]
               /\ ResultInBounds

\* C2: a repeated gen call with the same seed, model, bounds, samps,
\* num_points, stimuli_per_trial and acquisition configuration ends as the
\* first did: the same pool, the same selected index, the same result.
C2_Determinism ==
    (first # None /\ seed # None /\ pc \in {"done", "failed"}) =>
        /\ pc = first[1].pc
        /\ X_rnd = first[1].X_rnd
        /\ candidate_idx = first[1].candidate_idx
        /\ result = first[1].result

\* C3: the weights handed to the random draw have the length of the score
\* vector, no negative entry, and sum to 1, whatever the scores were.
C3_ProbabilityVector ==
    pc = "choice" =>
        /\ Len(probability_dist) = Len(scores)
        /\ \A i \in DOMAIN probability_dist :
               /\ ~isnan(probability_dist[i])
               /\ probability_dist[i][2] # 0
               /\ probability_dist[i][1] * probability_dist[i][2] >= 0
               /\ tensor_sum(Nums(probability_dist)) = probability_dist[i][2]

\* C4: on either sampling path the pool has shape (samps, q, D) with every
\* coordinate within its dimension's bounds, and so has every coordinate of
\* what gen returns.
C4_BoundsInvariant ==
    /\ sampler # "none" =>
           /\ q >= 1
           /\ Len(X_rnd) = self.samps
           /\ \A i \in DOMAIN X_rnd :
                  /\ Len(X_rnd[i]) = q
                  /\ \A j \in DOMAIN X_rnd[i] :
                         /\ Len(X_rnd[i][j]) = Dim(self)
                         /\ \A d \in DOMAIN X_rnd[i][j] :
                                InBounds(X_rnd[i][j][d], d)
    /\ pc = "done" => (result # <<>> /\ ResultInBounds)

C4_Witness ==
    /\ pc = "done"
    /\ sampler = "rand"
    /\ self.lb = <<1, -1>>
    /\ \E i \in DOMAIN X_rnd : \E j \in DOMAIN X_rnd[i] :
           X_rnd[i][j][1] > self.lb[1] * UGrid

\* C5: with stimuli_per_trial = 2 the pipeline runs with q = 2*num_points
\* and gen returns R of shape (num_points, D, 2) where R[k][d][j] is
\* coordinate d of row 2k+j of the selected row sequence; with
\* stimuli_per_trial = 1 the selected row is returned unchanged, shape
\* (num_points, D).  (Rows and k, j count from 1 here: row 2(k-1)+j.)
C5_PairedReshape ==
    pc = "done" =>
        /\ new_candidate = X_rnd[candidate_idx[1] + 1]
        /\ IF self.stimuli_per_trial = 2
           THEN /\ q = 2 * num_points
                /\ Len(new_candidate) = 2 * num_points
                /\ Len(result) = num_points
                /\ \A k \in 1..num_points :
                       /\ Len(result[k]) = Dim(self)
                       /\ \A d \in 1..Dim(self) :
                              /\ Len(result[k][d]) = 2
                              /\ \A j \in 1..2 :
                                     result[k][d][j]
                                         = new_candidate[2 * (k - 1) + j][d]
           ELSE /\ q = num_points
                /\ result = new_candidate
                /\ Len(result) = num_points
                /\ \A k \in 1..num_points : Len(result[k]) = Dim(self)

C5_Witness ==
    /\ pc = "done"
    /\ self.stimuli_per_trial = 2
    /\ num_points = 2
    /\ Dim(self) = 2
    /\ new_candidate[3] # new_candidate[4]
    /\ new_candidate[3][1] # new_candidate[3][2]

\* C6: a baseline-requiring acquisition class with a model that has no
\* recorded training inputs ends the call in an error: no acquisition
\* function is instantiated by any convention, no pool is sampled or
\* scored, and nothing is returned.
C6_CapabilityError ==
    (/\ self.acqf \in {NoisyExpectedImprovement, LogNoisyExpectedImprovement,
                       qNoisyExpectedImprovement,
                       qLogNoisyExpectedImprovement}
     /\ model.train_inputs \in {None, Some(<<>>)}
     /\ pc \notin {"idle", "eval", "instantiate"}) =>
        /\ pc = "failed"
        /\ error \in {"TypeError", "IndexError"}
        /\ acqf_obj = None
        /\ sampler = "none"
        /\ X_rnd = <<>>
        /\ acqf_calls = 0
        /\ scores = <<>>
        /\ candidate_idx = None
        /\ result = <<>>

C6_Witness ==
    /\ pc = "failed"
    /\ self.acqf = qNoisyExpectedImprovement
    /\ model.train_inputs = None
    /\ error = "TypeError"
    /\ eval_calls = 1

\* C7: the acquisition function a call instantiates follows its class: the
\* preference utility gets the model only, as pref_model, and no kwargs;
\* each of the four baseline-requiring classes gets the model, the first
\* element of the model's training inputs and the kwargs; any other class
\* gets the model and the kwargs and no training inputs.
C7_AcquisitionDispatch ==
    acqf_obj # None =>
        LET o == acqf_obj[1]
        IN  /\ o.cls = self.acqf
            /\ IF self.acqf = AnalyticExpectedUtilityOfBestOption
               THEN /\ o.model_arg = "pref_model"
                    /\ o.X_baseline = None
                    /\ o.kwargs = {}
               ELSE IF self.acqf \in {NoisyExpectedImprovement,
                                      LogNoisyExpectedImprovement,
                                      qNoisyExpectedImprovement,
                                      qLogNoisyExpectedImprovement}
               THEN /\ o.model_arg = "positional"
                    /\ model.train_inputs # None
                    /\ model.train_inputs[1] # <<>>
                    /\ o.X_baseline = Some(model.train_inputs[1][1])
                    /\ o.kwargs = self.acqf_kwargs
               ELSE /\ o.model_arg = "model"
                    /\ o.X_baseline = None
                    /\ o.kwargs = self.acqf_kwargs

C7_Witness ==
    /\ acqf_obj # None
    /\ self.acqf = qLogNoisyExpectedImprovement
    /\ self.acqf_kwargs = BetaKwargs
    /\ model.train_inputs = Some(<<"X0", "X1">>)
    /\ acqf_obj[1].X_baseline = Some("X0")
    /\ pc = "done"

C9_DimensionalityFallback ==
    /\ pc \in {"idle", "eval", "instantiate", "sample"} =>
           (sampler = "none" /\ X_rnd = <<>>)
    /\ pc \in {"score", "normalize", "choice", "select", "done"} =>
           /\ q = (IF self.stimuli_per_trial = 2 THEN 2 * num_points
                   ELSE num_points)
           /\ sampler \in {"sobol", "rand"}
           /\ sampler = "sobol" <=> Dim(self) * q <= MAXDIM
           /\ sampler = "rand" <=> Dim(self) * q > MAXDIM
           /\ seed # None => rng_seed = seed
           /\ sampler = "sobol" =>
                  X_rnd = draw_sobol_samples(self.lb, self.ub, self.samps,
                                             q, rng_seed[1])
           /\ sampler = "rand" =>
                  \A i \in DOMAIN X_rnd : \A j \in DOMAIN X_rnd[i] :
                      \A d \in DOMAIN X_rnd[i][j] :
                          \E k \in 0..(UGrid - 1) :
                              X_rnd[i][j][d] = self.lb[d] * UGrid
                                  + (self.ub[d] - self.lb[d]) * k

C9_Witness ==
    /\ pc = "done"
    /\ sampler = "rand"
    /\ seed = Some(1)
    /\ Dim(self) * q > MAXDIM

====
